---- MODULE Spec2Model ----
(***************************************************************************)
(* A model of dashboard.py, the Streamlit dashboard over the product       *)
(* catalogue spreadsheet.                                                  *)
(*                                                                         *)
(* Streamlit runs the script top to bottom once when a session opens and   *)
(* once more after every widget interaction.  A state of the model is the  *)
(* state left by one complete run: the widget values the run read, the     *)
(* st.cache_data entry of load_data, the module-level df, and what the     *)
(* run rendered (the Verify block's output and the filtered view).         *)
(*                                                                         *)
(* Text that the script searches inside (product names, the search box)    *)
(* is a sequence of one-character strings; text that is only compared for  *)
(* equality is a TLA+ string.  Timestamps are whole hours since an epoch;  *)
(* money is in paise.                                                      *)
(***************************************************************************)
EXTENDS Integers, Sequences, FiniteSets, TLC

VARIABLES
    source,         \* the rows of organic_india_complete_catalog.xlsx
    pc,             \* "start" | "running" | "LoadError"
    clock,          \* what datetime.now() returned inside load_data
    rand,           \* what the random module returned inside load_data, per row
    cache,          \* the st.cache_data entry of load_data
    df,             \* the module-level df of the last run
    search_term,    \* st.text_input("Search by product name")
    batch_number,   \* st.text_input("Search by Batch ID")
    category,       \* st.selectbox("Filter by Category")
    retailer,       \* st.selectbox("Filter by Retailer")
    stock_status,   \* st.radio("Filter by Stock Status")
    verify_out,     \* what the "Verify Product" block rendered in the last run
    filtered_df     \* filtered_df of the last run

vars == <<source, pc, clock, rand, cache, df, search_term, batch_number,
          category, retailer, stock_status, verify_out, filtered_df>>

----------------------------------------------------------------------------
(* Bounds of the model *)

\* longest spreadsheet, in rows
MaxRows == 2

\* longest text typed in the product search box, in characters
MaxTerm == 2

----------------------------------------------------------------------------
(* Values *)

\* a Timestamp cell at hour h
Ts(h) == [k |-> "ts", t |-> h]

\* pandas.NaT
NaT == [k |-> "NaT", t |-> 0]

\* an empty spreadsheet cell in a date column
EmptyCell == [k |-> "empty", t |-> 0]

\* a text cell in a date column that is no date
TextCell == [k |-> "text", t |-> 0]

\* midnight of day d
Day(d) == d * 24

\* an integer of a numeric column
Num(n) == [nan |-> FALSE, v |-> n]

\* float NaN; every comparison with it is False
NaN == [nan |-> TRUE, v |-> 0]

\* x < c on a column value
Lt(x, c) == ~x.nan /\ x.v < c

\* str.lower on one character of the model's alphabet
Lower(c) == CASE c = "A" -> "a" [] c = "B" -> "b" [] OTHER -> c

\* the sequences over S of length at most n
SeqsUpTo(S, n) == UNION {[1..m -> S] : m \in 0..n}

----------------------------------------------------------------------------
(* load_data *)

\* pd.read_excel: the sheet's rows, each labelled with its RangeIndex
read_excel(sheet) == [i \in 1..Len(sheet) |-> [r |-> sheet[i], index |-> i - 1]]

\* whether pd.to_datetime(column, dayfirst=True) raises: errors="raise" is the
\* default, and a cell that is text but no date is the one cell it rejects
to_datetime_raises(frame, col) == \E i \in DOMAIN frame : frame[i].r[col].k = "text"

\* pd.to_datetime on one cell of a column it accepts: a date stays the
\* Timestamp it is, an empty cell becomes NaT
to_datetime(cell) == IF cell.k = "ts" THEN cell ELSE NaT

\* (expiry - now).dt.days: Timedelta.days is the floor of the difference in
\* days; NaT gives NaN
DaysUntilExpiry(expiry, nowv) ==
    IF expiry.k = "NaT" THEN NaN ELSE Num((expiry.t - nowv) \div 24)

\* the limit in the lambda of line 50
NearExpiryDays == 90

\* ExpiryStatus with the boundary written <=: day 90 counted as Near Expiry
ExpiryStatus_Inclusive(x) ==
    IF Lt(x, 0) THEN "Expired"
    ELSE IF Lt(x, NearExpiryDays + 1) THEN "Near Expiry" ELSE "Good"

\* lambda x: 'Expired' if x < 0 else ('Near Expiry' if x < 90 else 'Good')
ExpiryStatus(x) ==
    IF Lt(x, 0) THEN "Expired"
    ELSE IF Lt(x, NearExpiryDays) THEN "Near Expiry" ELSE "Good"

\* the limit random.random() is compared with, in tenths
RandomLimit == 3

\* BlockchainVerified with no random draw: the stock rule for every row
BlockchainVerified_StockOnly(x, draw) == x.Current_Stock > 0

\* lambda x: random.choice([True, False]) if random.random() > 0.3
\*           else (x['Current Stock'] > 0)
\* draw.u is what random.random() returned, in tenths; draw.c is what
\* random.choice returned, which is called only when draw.u > 3
BlockchainVerified(x, draw) ==
    IF draw.u > RandomLimit THEN draw.c ELSE x.Current_Stock > 0

\* one row of the frame load_data returns
Prepared(raw, nowv, draw) ==
    LET m == to_datetime(raw.r.Manufacture_Date)
        e == to_datetime(raw.r.Expiry_Date)
        a == to_datetime(raw.r.Arrival_Date_at_Retailer)
        d == DaysUntilExpiry(e, nowv)
    IN  [r |-> [raw.r EXCEPT !.Manufacture_Date = m, !.Expiry_Date = e,
                             !.Arrival_Date_at_Retailer = a],
         index |-> raw.index,
         Days_Until_Expiry |-> d,
         Expiry_Status |-> ExpiryStatus(d),
         Blockchain_Verified |-> BlockchainVerified(raw.r, draw)]

\* load_data(): [ok |-> FALSE] when a to_datetime raises, else the frame
load_data(sheet, nowv, draws) ==
    LET raw == read_excel(sheet)
    IN  IF \/ to_datetime_raises(raw, "Manufacture_Date")
           \/ to_datetime_raises(raw, "Expiry_Date")
           \/ to_datetime_raises(raw, "Arrival_Date_at_Retailer")
        THEN [ok |-> FALSE, df |-> <<>>]
        ELSE [ok |-> TRUE,
              df |-> [i \in 1..Len(raw) |-> Prepared(raw[i], nowv, draws[i])]]

\* CacheHit for a load_data that lost its @st.cache_data: every call runs it
CacheHit_Never(c) == FALSE

\* @st.cache_data: load_data takes no argument, so the cache holds one entry,
\* and a call made while it is held returns a copy of it
CacheHit(c) == c.hit

----------------------------------------------------------------------------
(* The "Verify Product" block of the sidebar *)

\* the second argument of product.get('Manufacturing Address', ...)
DefaultAddress == "Organic India Facility, Lucknow"

\* Series.get(key, default): the column's value, or the default when the frame
\* has no such column
Get(product, key, default) ==
    IF key \in DOMAIN product.r THEN product.r[key] ELSE default

\* f"{x:.2f}" of an amount: its rupees and its two digits of paise
Format2f(paise) == <<paise \div 100, paise % 100>>

\* Timestamp.strftime('%Y-%m-%d %H:%M'): the date, the hour and the minute
Strftime_Ymd_HM(ts) == <<ts.t \div 24, ts.t % 24, 0>>

\* Timestamp.strftime('%Y-%m-%d'): the date
Strftime_Ymd(ts) == <<ts.t \div 24>>

\* NaT.strftime raises ValueError
StrftimeRaises(ts) == ts.k = "NaT"

\* BatchMatches with both sides upper-cased before they are compared
BatchMatches_AnyCase(cell, typed) ==
    LET Up(s) == CASE s = "b1" -> "B1" [] s = "b2" -> "B2" [] OTHER -> s
    IN  Up(cell) = Up(typed)

\* df['Batch Number'] == batch_number, on one row
BatchMatches(cell, typed) == cell = typed

\* df[df['Batch Number'] == batch_number]
BatchRows(frame, typed) ==
    SelectSeq(frame, LAMBDA x : BatchMatches(x.r.Batch_Number, typed))

\* what a run renders in place of the block when the button was not pressed
NotPressed == [kind |-> "none", shown |-> <<>>]

\* an exception that ends the run
Raised == [kind |-> "exception", shown |-> <<>>]

\* the verification-success card: label -> the text put after it
SuccessCard(product) ==
    [kind |-> "success",
     shown |-> [Product_Name |-> product.r.Product_Name,
                Category |-> product.r.Category,
                Quantity |-> product.r.Quantity,
                MRP |-> Format2f(product.r.MRP),
                Shelf_Life |-> product.r.Shelf_Life_Months,
                Manufacturer |-> product.r.Manufacturer,
                Manufacturing_Address |->
                    Get(product, "Manufacturing_Address", DefaultAddress),
                Manufacturing_Time |-> Strftime_Ymd_HM(product.r.Manufacture_Date),
                Organic_Certifications |-> product.r.Organic_Certifications]]

\* the verification-fail card
FailCard(product) ==
    [kind |-> "fail",
     shown |-> [Product_Name |-> product.r.Product_Name,
                Manufacturing_Address |->
                    Get(product, "Manufacturing_Address", DefaultAddress),
                Manufacture_Date |-> Strftime_Ymd(product.r.Manufacture_Date)]]

\* if st.button("Verify Product"): ... (lines 70-102)
VerifyProduct(frame, typed, pressed) ==
    IF ~pressed THEN NotPressed
    ELSE IF typed = "" THEN [kind |-> "warning_enter_id", shown |-> <<>>]
    ELSE LET product == BatchRows(frame, typed)
         IN  IF product = <<>>
             THEN [kind |-> "warning_not_found", shown |-> <<>>]
             ELSE IF product[1].Blockchain_Verified
                  THEN IF StrftimeRaises(product[1].r.Manufacture_Date)
                       THEN Raised ELSE SuccessCard(product[1])
                  ELSE IF StrftimeRaises(product[1].r.Manufacture_Date)
                       THEN Raised ELSE FailCard(product[1])

----------------------------------------------------------------------------
(* Apply filters *)

\* whether re.compile(pat) raises: in the model's alphabet "(" opens a group
\* that nothing closes
ReCompileRaises(pat) == \E i \in DOMAIN pat : pat[i] = "("

\* one element of a compiled pattern against one character, re.IGNORECASE:
\* "." is any character, anything else is itself
ReElement(p, ch) == p = "." \/ Lower(p) = Lower(ch)

\* regex.search(text) is not None
ReSearch(pat, text) ==
    \E off \in 0..(Len(text) - Len(pat)) :
        \A j \in 1..Len(pat) : ReElement(pat[j], text[off + j])

\* frame[frame['Product Name'].str.contains(search_term, case=False)]:
\* regex=True is str.contains' default
FilterBySearch(frame, term) ==
    SelectSeq(frame, LAMBDA x : ReSearch(term, x.r.Product_Name))

\* FilterByCategory without its test for "All": the selectbox value is
\* always compared with the column
FilterByCategory_Always(frame, cat) ==
    SelectSeq(frame, LAMBDA x : x.r.Category = cat)

\* if category != "All": filtered_df = filtered_df[... == category]
FilterByCategory(frame, cat) ==
    IF cat # "All" THEN SelectSeq(frame, LAMBDA x : x.r.Category = cat) ELSE frame

\* if retailer != "All": filtered_df = filtered_df[... == retailer]
FilterByRetailer(frame, ret) ==
    IF ret # "All" THEN SelectSeq(frame, LAMBDA x : x.r.Retailer_Name = ret) ELSE frame

\* if stock_status != "All": filtered_df = filtered_df[... == stock_status]
FilterByStatus(frame, st) ==
    IF st # "All" THEN SelectSeq(frame, LAMBDA x : x.r.Batch_Status = st) ELSE frame

\* lines 109-117
ApplyFilters(frame, term, cat, ret, st) ==
    IF term # <<>> /\ ReCompileRaises(term) THEN [kind |-> "exception", rows |-> <<>>]
    ELSE LET searched == IF term # <<>> THEN FilterBySearch(frame, term) ELSE frame
         IN  [kind |-> "view",
              rows |-> FilterByStatus(
                          FilterByRetailer(FilterByCategory(searched, cat), ret), st)]

\* filtered_df of a run that an exception ended before line 109
NotReached == [kind |-> "not reached", rows |-> <<>>]

----------------------------------------------------------------------------
(* The spreadsheets, clocks and random draws the model is run on *)

\* a row of the sheet: in stock, expiring 90 days after the day of the load
RowTea ==
    [Product_Name |-> <<"a", "b">>, Category |-> "Tea", Quantity |-> 10,
     MRP |-> 12050, Retailer_Name |-> "Retailer A", Current_Stock |-> 5,
     Batch_Status |-> "In Stock", Batch_Number |-> "B1",
     Manufacture_Date |-> Ts(Day(40)), Expiry_Date |-> Ts(Day(190)),
     Arrival_Date_at_Retailer |-> Ts(Day(50)), Shelf_Life_Months |-> 24,
     Manufacturer |-> "Organic India", Organic_Certifications |-> "USDA Organic",
     Manufacturing_Address |-> "Barabanki"]

\* out of stock, expiring on the day of the load, made at 09:00
RowHerb ==
    [RowTea EXCEPT !.Product_Name = <<"A", ".">>, !.Category = "Herb",
                   !.Quantity = 3, !.MRP = 9999, !.Retailer_Name = "Retailer B",
                   !.Current_Stock = 0, !.Batch_Status = "Out of Stock",
                   !.Batch_Number = "B2", !.Manufacture_Date = Ts(Day(10) + 9),
                   !.Expiry_Date = Ts(Day(100)), !.Shelf_Life_Months = 12]

\* low stock, expired 10 days before the day of the load
RowLow ==
    [RowTea EXCEPT !.Product_Name = <<"b">>, !.Retailer_Name = "Retailer B",
                   !.Current_Stock = 2, !.Batch_Status = "Low Stock",
                   !.Batch_Number = "B3", !.Expiry_Date = Ts(Day(90))]

\* expiring 89 days after the day of the load
RowNear == [RowTea EXCEPT !.Batch_Number = "B4", !.Expiry_Date = Ts(Day(189))]

\* no manufacture date in the sheet
RowNoMade == [RowLow EXCEPT !.Manufacture_Date = EmptyCell]

\* no expiry date in the sheet
RowNoExpiry == [RowTea EXCEPT !.Batch_Number = "B5", !.Expiry_Date = EmptyCell]

\* dates that are text but no date
RowBadMade == [RowTea EXCEPT !.Manufacture_Date = TextCell]

RowBadExpiry == [RowTea EXCEPT !.Expiry_Date = TextCell]

RowBadArrival == [RowTea EXCEPT !.Arrival_Date_at_Retailer = TextCell]

\* a sheet without its optional Manufacturing Address column
DropAddress(sheet) ==
    IF sheet = <<>> THEN <<>>
    ELSE [i \in 1..Len(sheet) |->
            [c \in DOMAIN sheet[i] \ {"Manufacturing_Address"} |-> sheet[i][c]]]

\* the values datetime.now() takes: midnight and noon of day 100
Nows == {Day(100), Day(100) + 12}

Noon == Day(100) + 12

\* the outcomes of the two random calls on one row: random.random() at or
\* above the limit, and random.choice when it is above
Draws == {[u |-> 3, c |-> FALSE], [u |-> 4, c |-> TRUE], [u |-> 4, c |-> FALSE]}

\* the characters typed in the search box
Alphabet == {"a", ".", "("}

Terms == SeqsUpTo(Alphabet, MaxTerm)

\* the batch identifiers typed in the batch box
BatchIds == {"", "B1", "B2", "B3", "b1", "ZZ"}

\* the options of st.radio("Filter by Stock Status")
StockOptions == {"All", "In Stock", "Low Stock", "Out of Stock"}

\* ["All"] + list(df['Category'].unique())
CategoryOptions(frame) == {"All"} \cup {frame[i].r.Category : i \in DOMAIN frame}

\* ["All"] + list(df['Retailer Name'].unique())
RetailerOptions(frame) == {"All"} \cup {frame[i].r.Retailer_Name : i \in DOMAIN frame}

----------------------------------------------------------------------------
(* The runs of the script *)

\* the state before the first run, on one of the sheets
InitOn(Sheets) ==
    /\ source \in Sheets
    /\ pc = "start"
    /\ clock = 0
    /\ rand = <<>>
    /\ cache = [hit |-> FALSE, value |-> <<>>]
    /\ df = <<>>
    /\ search_term = <<>>
    /\ batch_number = ""
    /\ category = "All"
    /\ retailer = "All"
    /\ stock_status = "All"
    /\ verify_out = NotPressed
    /\ filtered_df = NotReached

\* df = load_data() under @st.cache_data
CachedLoad(c, sheet, nowv, draws) ==
    IF CacheHit(c) THEN [ok |-> TRUE, df |-> c.value]
    ELSE load_data(sheet, nowv, draws)

\* lines 62-117 of one run: the sidebar, then the filters
Render(frame, term, typed, cat, ret, st, pressed) ==
    LET v == VerifyProduct(frame, typed, pressed)
    IN  /\ verify_out' = v
        /\ filtered_df' = IF v.kind = "exception" THEN NotReached
                          ELSE ApplyFilters(frame, term, cat, ret, st)

\* one run of the script with the given widget values
Run(NowSet, DrawSet, term, typed, cat, ret, st, pressed) ==
    \E nowv \in (IF CacheHit(cache) THEN {clock} ELSE NowSet) :
    \E draws \in (IF CacheHit(cache) THEN {rand}
                  ELSE [1..Len(source) -> DrawSet]) :
        LET got == CachedLoad(cache, source, nowv, draws)
        IN  IF got.ok
            THEN /\ pc' = "running"
                 /\ clock' = nowv
                 /\ rand' = draws
                 /\ cache' = [hit |-> TRUE, value |-> got.df]
                 /\ df' = got.df
                 /\ search_term' = term
                 /\ batch_number' = typed
                 /\ category' = cat
                 /\ retailer' = ret
                 /\ stock_status' = st
                 /\ Render(got.df, term, typed, cat, ret, st, pressed)
            ELSE /\ pc' = "LoadError"
                 /\ UNCHANGED <<clock, rand, cache, df, search_term, batch_number,
                                category, retailer, stock_status, verify_out,
                                filtered_df>>

\* the run that opens the session
FirstRun(NowSet, DrawSet) ==
    /\ pc = "start"
    /\ Run(NowSet, DrawSet, <<>>, "", "All", "All", "All", FALSE)
    /\ UNCHANGED source

\* the user edits the product search box
TypeSearch(TermSet) ==
    /\ pc = "running"
    /\ \E t \in TermSet \ {search_term} :
           Run(Nows, Draws, t, batch_number, category, retailer, stock_status, FALSE)
    /\ UNCHANGED source

\* the user edits the batch box
TypeBatch(IdSet) ==
    /\ pc = "running"
    /\ \E b \in IdSet \ {batch_number} :
           Run(Nows, Draws, search_term, b, category, retailer, stock_status, FALSE)
    /\ UNCHANGED source

\* the user picks a category
SelectCategory ==
    /\ pc = "running"
    /\ \E c \in CategoryOptions(df) \ {category} :
           Run(Nows, Draws, search_term, batch_number, c, retailer, stock_status, FALSE)
    /\ UNCHANGED source

\* the user picks a retailer
SelectRetailer ==
    /\ pc = "running"
    /\ \E r \in RetailerOptions(df) \ {retailer} :
           Run(Nows, Draws, search_term, batch_number, category, r, stock_status, FALSE)
    /\ UNCHANGED source

\* the user picks a stock status
SelectStock ==
    /\ pc = "running"
    /\ \E s \in StockOptions \ {stock_status} :
           Run(Nows, Draws, search_term, batch_number, category, retailer, s, FALSE)
    /\ UNCHANGED source

\* the user presses "Verify Product"
PressVerify ==
    /\ pc = "running"
    /\ Run(Nows, Draws, search_term, batch_number, category, retailer, stock_status, TRUE)
    /\ UNCHANGED source

----------------------------------------------------------------------------
(* Specifications *)

\* The whole session: every interaction, on short sheets and few typed texts
Sheets == SeqsUpTo({RowTea, RowHerb, RowBadExpiry}, MaxRows)

Init == InitOn(Sheets)

Next ==
    \/ FirstRun(Nows, Draws)
    \/ TypeSearch({<<>>, <<"a">>, <<".">>})
    \/ TypeBatch({"", "B1", "ZZ"})
    \/ SelectCategory
    \/ SelectRetailer
    \/ SelectStock
    \/ PressVerify

Spec == Init /\ [][Next]_vars

\* The load alone, on every date cell, clock and draw
LoadSheets ==
    SeqsUpTo({RowTea, RowHerb, RowLow, RowNear, RowNoExpiry,
              RowBadMade, RowBadExpiry, RowBadArrival}, MaxRows)

InitLoad == InitOn(LoadSheets)

NextLoad == FirstRun(Nows, Draws)

SpecLoad == InitLoad /\ [][NextLoad]_vars

\* The filters, on every search text
FilterSheets == SeqsUpTo({RowTea, RowHerb, RowLow}, MaxRows)

InitFilter == InitOn(FilterSheets)

NextFilter ==
    \/ FirstRun({Noon}, {d \in Draws : d.u <= RandomLimit})
    \/ TypeSearch(Terms)
    \/ SelectCategory
    \/ SelectRetailer
    \/ SelectStock

SpecFilter == InitFilter /\ [][NextFilter]_vars

\* The lookup, on every draw and batch text, with and without the address
\* column and with a record that has no manufacture date
VerifySheets ==
    LET S == SeqsUpTo({RowTea, RowHerb, RowNoMade}, MaxRows)
    IN  S \cup {DropAddress(x) : x \in S}

InitVerify == InitOn(VerifySheets)

NextVerify ==
    \/ FirstRun({Noon}, Draws)
    \/ TypeBatch(BatchIds)
    \/ TypeSearch({<<>>, <<"a">>, <<"(">>})
    \/ SelectStock
    \/ PressVerify

SpecVerify == InitVerify /\ [][NextVerify]_vars

----------------------------------------------------------------------------
(* What the claims speak of *)

\* text contains sub, letters compared without regard to case
Contains(text, sub) ==
    \E off \in 0..(Len(text) - Len(sub)) :
        \A j \in 1..Len(sub) : Lower(sub[j]) = Lower(text[off + j])

\* row x meets each of the four predicates of the current widget values
MeetsEveryPredicate(x) ==
    /\ search_term = <<>> \/ Contains(x.r.Product_Name, search_term)
    /\ category = "All" \/ x.r.Category = category
    /\ retailer = "All" \/ x.r.Retailer_Name = retailer
    /\ stock_status = "All" \/ x.r.Batch_Status = stock_status

\* the row labelled like x is in the filtered view
InView(x) == \E j \in DOMAIN filtered_df.rows : filtered_df.rows[j].index = x.index

\* the last run got past the load and pressed the Verify button
Pressed == pc = "running" /\ verify_out.kind # "none"

\* the positions of df whose batch number is the one typed
Matches == {i \in DOMAIN df : df[i].r.Batch_Number = batch_number}

\* the date of a timestamp, as a day number
DateOf(h) == h \div 24

\* a date cell of the sheet holds a date
IsDate(cell) == cell.k = "ts"

----------------------------------------------------------------------------
(* C1 *)

\* C1: a record is in the filtered view if and only if it meets every
\* supplied predicate on its own: its product name contains search_text
\* without regard to case, and its Category, Retailer Name and Batch Status
\* equal the selected values; an empty search_text and "All" do not constrain.
C1_FilterIsConjunctive ==
    (pc = "running" /\ filtered_df.kind = "view")
        => \A i \in DOMAIN df : InView(df[i]) <=> MeetsEveryPredicate(df[i])

----------------------------------------------------------------------------
(* C2 *)

\* C2 as stated: Verify with a batch number that no record has renders the
\* "Batch ID not found" warning, the empty string included.
C2_AbsentIsNotFound ==
    (Pressed /\ Matches = {}) => verify_out.kind = "warning_not_found"

\* C2 as amended: Verify with a batch number that no record has renders the
\* "Batch ID not found" warning when the text is not empty and the "Please
\* enter a Batch ID" warning when it is empty; it renders no success or failure
\* card and the Verify block raises nothing, whatever the filters are.
C2_AbsentIsWarned ==
    (Pressed /\ Matches = {})
        => verify_out.kind = (IF batch_number = "" THEN "warning_enter_id"
                              ELSE "warning_not_found")

\* a lookup of an absent, non-empty batch number in a sheet that has rows
C2_Witness ==
    /\ Pressed
    /\ df # <<>>
    /\ batch_number = "ZZ"
    /\ search_term # <<>>
    /\ verify_out.kind = "warning_not_found"

----------------------------------------------------------------------------
(* C3 *)

\* C3: Verify with the batch number of a record whose blockchain_verified is
\* true renders the success card, and every field of the card is the value of
\* that field in the record (the address being the default when the sheet has
\* no address column), whatever the filters are.
C3_VerifiedShowsRecord ==
    Pressed =>
        \A i \in Matches :
            (Matches = {i} /\ df[i].Blockchain_Verified) =>
                /\ verify_out.kind = "success"
                /\ verify_out.shown.Product_Name = df[i].r.Product_Name
                /\ verify_out.shown.Category = df[i].r.Category
                /\ verify_out.shown.Quantity = df[i].r.Quantity
                /\ verify_out.shown.MRP[1] * 100 + verify_out.shown.MRP[2] = df[i].r.MRP
                /\ verify_out.shown.Shelf_Life = df[i].r.Shelf_Life_Months
                /\ verify_out.shown.Manufacturer = df[i].r.Manufacturer
                /\ verify_out.shown.Manufacturing_Address =
                       Get(df[i], "Manufacturing_Address", DefaultAddress)
                /\ verify_out.shown.Manufacturing_Time[1] * 24
                       + verify_out.shown.Manufacturing_Time[2]
                           = df[i].r.Manufacture_Date.t
                /\ verify_out.shown.Organic_Certifications
                       = df[i].r.Organic_Certifications

----------------------------------------------------------------------------
(* C4 *)

\* C4: every record's expiry_status is the bucket of its days_until_expiry:
\* days < 0 is Expired, 0 <= days < 90 is Near Expiry, days >= 90 is Good; two
\* records with the same days have the same status, and no record has a
\* status other than these three.
C4_ExpiryBuckets ==
    pc = "running" =>
        /\ \A i \in DOMAIN df :
            LET d == df[i].Days_Until_Expiry
                s == df[i].Expiry_Status
            IN  /\ s \in {"Expired", "Near Expiry", "Good"}
                /\ (~d.nan /\ d.v < 0) => s = "Expired"
                /\ (~d.nan /\ d.v >= 0 /\ d.v < 90) => s = "Near Expiry"
                /\ (~d.nan /\ d.v >= 90) => s = "Good"
        /\ \A i, j \in DOMAIN df :
            df[i].Days_Until_Expiry = df[j].Days_Until_Expiry
                => df[i].Expiry_Status = df[j].Expiry_Status

\* a load that leaves one record at 89 days and one at 90
C4_Witness ==
    /\ pc = "running"
    /\ \E i, j \in DOMAIN df :
        /\ df[i].Days_Until_Expiry = Num(89) /\ df[i].Expiry_Status = "Near Expiry"
        /\ df[j].Days_Until_Expiry = Num(90) /\ df[j].Expiry_Status = "Good"

----------------------------------------------------------------------------
(* C5 *)

\* C5: Verify with the batch number of a record whose blockchain_verified is
\* false renders the failure card, and the card shows the product name, the
\* manufacture date and the manufacturing address and no other field.
C5_FailedShowsThreeFields ==
    Pressed =>
        \A i \in Matches :
            (Matches = {i} /\ ~df[i].Blockchain_Verified) =>
                /\ verify_out.kind = "fail"
                /\ DOMAIN verify_out.shown =
                       {"Product_Name", "Manufacture_Date", "Manufacturing_Address"}

----------------------------------------------------------------------------
(* C6 *)

\* C6: with the search box empty and the three selections at "All" a run that
\* reaches the filters leaves the whole dataset as its filtered view; and every
\* filtered view holds records of the dataset in the dataset's order, none of
\* them twice.
C6_StableFilter ==
    pc = "running" =>
        /\ (search_term = <<>> /\ category = "All" /\ retailer = "All"
                /\ stock_status = "All" /\ filtered_df.kind # "not reached")
              => (filtered_df.kind = "view" /\ filtered_df.rows = df)
        /\ filtered_df.kind = "view" =>
              /\ \A j \in DOMAIN filtered_df.rows :
                    /\ filtered_df.rows[j].index + 1 \in DOMAIN df
                    /\ filtered_df.rows[j] = df[filtered_df.rows[j].index + 1]
              /\ \A j, k \in DOMAIN filtered_df.rows :
                    j < k => filtered_df.rows[j].index < filtered_df.rows[k].index

\* a view of two records under a search text and a selection
C6_Witness ==
    /\ pc = "running"
    /\ search_term # <<>>
    /\ stock_status # "All"
    /\ filtered_df.kind = "view"
    /\ Len(filtered_df.rows) >= 2

----------------------------------------------------------------------------
(* C7 *)

\* C7: once the dataset is loaded, no run of the script changes it: df and the
\* cached frame, derived fields included, are after every interaction what
\* they were before it.
C7_Snapshot == [][pc = "running" => (df' = df /\ cache' = cache)]_vars

\* a run that pressed Verify on a loaded sheet and filtered records out
C7_Witness ==
    /\ pc = "running"
    /\ verify_out.kind \in {"success", "fail"}
    /\ filtered_df.kind = "view"
    /\ Len(filtered_df.rows) < Len(df)
    /\ cache.value = df

----------------------------------------------------------------------------
(* C8 *)

\* C8: days_until_expiry is the expiry date minus the current date, in whole
\* days: 0 for a record that expires on the day of the load, at any hour.
C8_DaysAreDateDifference ==
    pc = "running" =>
        \A i \in DOMAIN df :
            IsDate(df[i].r.Expiry_Date) =>
                df[i].Days_Until_Expiry
                    = Num(DateOf(df[i].r.Expiry_Date.t) - DateOf(clock))

----------------------------------------------------------------------------
(* C9 *)

\* C9: a sheet with a manufacture, expiry or arrival cell that is no date,
\* an empty cell included, does not load; so every record of a loaded dataset
\* has an expiry date.
C9_LoadNeedsEveryDate ==
    pc = "running" =>
        /\ \A i \in DOMAIN source :
            /\ IsDate(source[i].Manufacture_Date)
            /\ IsDate(source[i].Expiry_Date)
            /\ IsDate(source[i].Arrival_Date_at_Retailer)
        /\ \A i \in DOMAIN df : IsDate(df[i].r.Expiry_Date)

----------------------------------------------------------------------------
(* C10 *)

====
